---- MODULE Spec2Model ----
(***************************************************************************)
(* Model of crates/ra_analysis/src/call_info.rs: the call_info query       *)
(* (call-site classification, symbol resolution, active parameter) and     *)
(* FnSignatureInfo::new (label, documentation, parameter list).            *)
(*                                                                         *)
(* Text is a sequence of units.  A unit is one character, except that the  *)
(* three-backtick fence and the word rust are one unit each.  Offsets      *)
(* count units.  An Option is a sequence: <<>> is None, <<v>> is Some(v).  *)
(***************************************************************************)
EXTENDS Integers, Sequences, FiniteSets, TLC

\* ------------------------------------------------------------------ bounds
MaxChildren == 4
MaxChildLen == 2
MaxStart == 1
MaxDocLen == 4
MaxParams == 2
MaxOffset == 3
MaxDepth == 2
MaxCands == 3

VARIABLES
  \* FnSignatureInfo::new
  fn_def, fn_start, sig_pc, label, doc, processed_lines, params,
  \* call_info
  syntax, text, position, index, canceled, pc, calling_node, file_symbols,
  result, index_calls, inspected

sig_vars == <<fn_def, fn_start, sig_pc, label, doc, processed_lines, params>>

db_vars == <<syntax, text, position, index, canceled>>

query_vars == <<db_vars, pc, calling_node, file_symbols, result, index_calls,
                inspected>>

vars == <<sig_vars, query_vars>>

\* ------------------------------------------------------------ text helpers
None == <<>>

Some(v) == <<v>>

IsSome(o) == Len(o) = 1

Unwrap(o) == o[1]

Min2(a, b) == IF a <= b THEN a ELSE b

Max2(a, b) == IF a >= b THEN a ELSE b

RECURSIVE SeqsUpTo(_, _)
SeqsUpTo(S, n) ==
  IF n = 0 THEN {<<>>}
  ELSE LET shorter == SeqsUpTo(S, n - 1)
       IN shorter \cup {Append(s, x) : s \in shorter, x \in S}

RECURSIVE Concat(_)
Concat(ss) == IF ss = <<>> THEN <<>> ELSE Head(ss) \o Concat(Tail(ss))

Repeat(c, n) == [i \in 1..n |-> c]

\* the fence unit stands for three backticks
Fence == "fence"

Rust == "rust"

Whitespace == {" ", "\n"}

RECURSIVE TrimStart(_)
TrimStart(s) ==
  IF s # <<>> /\ Head(s) \in Whitespace THEN TrimStart(Tail(s)) ELSE s

RECURSIVE TrimEnd(_)
TrimEnd(s) ==
  IF s # <<>> /\ s[Len(s)] \in Whitespace
  THEN TrimEnd(SubSeq(s, 1, Len(s) - 1))
  ELSE s

\* str::trim
Trim(s) == TrimEnd(TrimStart(s))

RECURSIVE SplitNewline(_)
SplitNewline(s) ==
  IF \E i \in 1..Len(s) : s[i] = "\n"
  THEN LET i == CHOOSE k \in 1..Len(s) :
                  s[k] = "\n" /\ \A j \in 1..(k - 1) : s[j] # "\n"
       IN <<SubSeq(s, 1, i - 1)>> \o SplitNewline(SubSeq(s, i + 1, Len(s)))
  ELSE <<s>>

\* str::lines: split at newlines, a final empty line is not a line
Lines(s) ==
  LET parts == SplitNewline(s)
  IN IF parts[Len(parts)] = <<>>
     THEN SubSeq(parts, 1, Len(parts) - 1)
     ELSE parts

\* [String]::join("\n")
RECURSIVE Join(_)
Join(lines) ==
  IF lines = <<>> THEN <<>>
  ELSE IF Len(lines) = 1 THEN lines[1]
  ELSE lines[1] \o <<"\n">> \o Join(Tail(lines))

\* line.starts_with(fence)
StartsWithFence(line) == line # <<>> /\ line[1] = Fence

\* line.contains("rust")
ContainsRust(line) == \E i \in 1..Len(line) : line[i] = Rust

\* ------------------------------------------------- function definition node
\* A FnDef node: its direct children in order (kind and text), the text
\* doc_comment_text() yields for it, and its parameter list.
MkDef(children, docs, plist) ==
  [children |-> children, docs |-> docs, param_list |-> plist]

NodeText(node) == Concat([i \in 1..Len(node.children) |-> node.children[i].text])

ChildStart(node, start, i) ==
  start + Len(Concat([j \in 1..(i - 1) |-> node.children[j].text]))

ChildRange(node, start, i) ==
  <<ChildStart(node, start, i),
    ChildStart(node, start, i) + Len(node.children[i].text)>>

\* TextRange::is_subrange
IsSubrange(r, of) == of[1] <= r[1] /\ r[2] <= of[2]

\* node.body(): the first BLOCK child
body(node) ==
  LET blocks == {i \in 1..Len(node.children) : node.children[i].kind = "BLOCK"}
  IN IF blocks = {} THEN None
     ELSE Some(CHOOSE i \in blocks : \A j \in blocks : i <= j)

\* node.doc_comments(): the comment children
doc_comments(node) ==
  {i \in 1..Len(node.children) : node.children[i].kind = "COMMENT"}

\* The label before documentation is removed.
label_without_body(node, start) ==
  IF IsSome(body(node))
  THEN LET body_range == ChildRange(node, start, Unwrap(body(node)))
       IN Concat([i \in 1..Len(node.children) |->
                    IF IsSubrange(ChildRange(node, start, i), body_range)
                    THEN <<>>
                    ELSE node.children[i].text])
  ELSE NodeText(node)

extract_doc_comments(node, start) ==
  IF Cardinality(doc_comments(node)) = 0 THEN None
  ELSE LET cs == doc_comments(node)
           begin == CHOOSE b \in {ChildRange(node, start, i)[1] : i \in cs} :
                      \A i \in cs : b <= ChildRange(node, start, i)[1]
           end == CHOOSE e \in {ChildRange(node, start, i)[2] : i \in cs} :
                      \A i \in cs : e >= ChildRange(node, start, i)[2]
       IN Some([range |-> <<begin, end>>, docs |-> node.docs])

comment_range_absolute(range, start) == range

\* comment_range.checked_sub(node.syntax().range().start())
comment_range_relative(range, start) == <<range[1] - start, range[2] - start>>

\* String::replace_range(start..end, ""); it panics when the range does
\* not lie within the string.
replace_range_fits(lbl, range) ==
  0 <= range[1] /\ range[1] <= range[2] /\ range[2] <= Len(lbl)

replace_range(lbl, range) ==
  SubSeq(lbl, 1, range[1]) \o SubSeq(lbl, range[2] + 1, Len(lbl))

massage_line_every_fence(line, in_code_block) ==
  IF StartsWithFence(line) /\ ~ContainsRust(line) THEN <<Fence, Rust>> ELSE line

\* One line of the markdown pass; in_code_block is the state after the
\* toggle for this line.
massage_line(line, in_code_block) ==
  IF in_code_block /\ StartsWithFence(line) /\ ~ContainsRust(line)
  THEN <<Fence, Rust>>
  ELSE line

RECURSIVE massage_markdown(_, _)
massage_markdown(lines, in_code_block) ==
  IF lines = <<>> THEN <<>>
  ELSE LET line == Head(lines)
           toggled == IF StartsWithFence(line) THEN ~in_code_block
                      ELSE in_code_block
       IN <<massage_line(line, toggled)>> \o massage_markdown(Tail(lines), toggled)

\* if !processed_lines.is_empty() { doc = Some(processed_lines.join("\n")) }
doc_of_lines(lines) ==
  IF lines # <<>> THEN Some(Join(lines)) ELSE None

\* docs -> doc
normalize_docs(docs) == doc_of_lines(massage_markdown(Lines(docs), FALSE))

\* FnSignatureInfo::param_list: the receiver text, then each parameter
\* pattern text; a parameter without a pattern is skipped.
param_list(node) ==
  IF IsSome(node.param_list)
  THEN LET pl == Unwrap(node.param_list)
       IN pl.self_param \o Concat([i \in 1..Len(pl.params) |-> pl.params[i]])
  ELSE <<>>

\* FnSignatureInfo::new as one function: tag "Some" with the signature, or
\* tag "Panic" when replace_range is out of range.
FnSignatureInfo_new(node, start) ==
  LET label0 == label_without_body(node, start)
      dc == extract_doc_comments(node, start)
      rel == comment_range_relative(Unwrap(dc).range, start)
  IN IF IsSome(dc) /\ ~replace_range_fits(label0, rel)
     THEN [tag |-> "Panic", label |-> <<>>, params |-> <<>>, doc |-> None]
     ELSE [tag |-> "Some",
           label |-> Trim(IF IsSome(dc) THEN replace_range(label0, rel) ELSE label0),
           params |-> param_list(node),
           doc |-> IF IsSome(dc) THEN normalize_docs(Unwrap(dc).docs) ELSE None]

\* --------------------------------------------------------------- call sites
\* The file of the query is its text and the chain of call nodes around the
\* cursor, outermost first; each node has a kind, a range, the shape of its
\* callee and, when it has one, the start of its argument list, which ends
\* where the node ends.

\* find_node_at_offset::<N>: the deepest node of the kind whose range
\* contains the offset
find_node_at_offset(nodes, kind, offset) ==
  LET hits == {i \in 1..Len(nodes) :
                 /\ nodes[i].kind = kind
                 /\ nodes[i].range[1] <= offset
                 /\ offset <= nodes[i].range[2]}
  IN IF hits = {} THEN None
     ELSE Some(CHOOSE i \in hits : \A j \in hits : j <= i)

with_node_innermost_any(nodes, offset) ==
  LET hits == {i \in 1..Len(nodes) :
                 nodes[i].range[1] <= offset /\ offset <= nodes[i].range[2]}
  IN IF hits = {} THEN None
     ELSE Some(CHOOSE i \in hits : \A j \in hits : j <= i)

\* FnCallNode::with_node; the variant is the kind of the node found
with_node(nodes, offset) ==
  IF IsSome(find_node_at_offset(nodes, "CALL_EXPR", offset))
  THEN find_node_at_offset(nodes, "CALL_EXPR", offset)
  ELSE find_node_at_offset(nodes, "METHOD_CALL_EXPR", offset)

\* FnCallNode::name_ref
name_ref(node) ==
  IF node.kind = "CALL_EXPR"
  THEN IF node.callee = "PathExpr" THEN Some("name") ELSE None
  ELSE IF node.callee = "NameRef" THEN Some("name") ELSE None

\* FnCallNode::arg_list: the range of the argument list
arg_list(node) ==
  IF IsSome(node.arg_start)
  THEN Some(<<Unwrap(node.arg_start), node.range[2]>>)
  ELSE None

\* arg_list.syntax().text().slice(range).to_string().matches(',').count():
\* the slice is the part of the range that lies in the argument list
count_commas(txt, arg_range, range_search) ==
  Cardinality({p \in (Max2(arg_range[1], range_search[1]) + 1)
                       ..Min2(arg_range[2], range_search[2]) : txt[p] = ","})

has_self(node) ==
  IsSome(node.param_list) /\ IsSome(Unwrap(node.param_list).self_param)

current_parameter_ignoring_self(num_params, self, args, offset, txt) ==
  IF num_params = 1 THEN Some(0)
  ELSE IF num_params > 1 /\ IsSome(args)
  THEN Some(count_commas(txt, Unwrap(args), <<Unwrap(args)[1], offset>>))
  ELSE None

current_parameter_counting_single(num_params, self, args, offset, txt) ==
  IF num_params >= 1 /\ IsSome(args)
  THEN Some(count_commas(txt, Unwrap(args), <<Unwrap(args)[1], offset>>)
            + (IF self THEN 1 ELSE 0))
  ELSE None

\* the active parameter; defined where the searched range is a TextRange
current_parameter(num_params, self, args, offset, txt) ==
  IF num_params = 1
  THEN IF ~self THEN Some(0) ELSE None
  ELSE IF num_params > 1 /\ IsSome(args)
  THEN Some(count_commas(txt, Unwrap(args), <<Unwrap(args)[1], offset>>)
            + (IF self THEN 1 ELSE 0))
  ELSE None

\* TextRange::from_to(start, position.offset) is reached and its
\* arguments are out of order
range_search_invalid(num_params, args, offset) ==
  num_params > 1 /\ IsSome(args) /\ Unwrap(args)[1] > offset

\* ------------------------------------------------------------ the database
Tok(kind, c, n) == [kind |-> kind, text |-> Repeat(c, n)]

PList(self, pats) == Some([self_param |-> self, params |-> pats])

DocFn(pl) ==
  MkDef(<<Tok("COMMENT", "/", 2), Tok("TOKEN", "f", 2), Tok("BLOCK", "{", 1)>>,
        <<"x">>, pl)

PlainFn(pl) ==
  MkDef(<<Tok("TOKEN", "f", 2), Tok("WHITESPACE", " ", 1), Tok("BLOCK", "{", 1)>>,
        <<>>, pl)

FileIds == {1, 2}

\* source_file(file_id): the function definitions of each file, by pointer
Files ==
  [f \in FileIds |->
     IF f = 1
     THEN <<[start |-> 0, node |-> PlainFn(PList(None, <<>>))],
            [start |-> 3, node |-> DocFn(PList(None, <<Some("x")>>))],
            [start |-> 8, node |-> PlainFn(PList(None, <<Some("x"), Some("y")>>))],
            [start |-> 12, node |-> PlainFn(PList(None, <<Some("x"), None>>))]>>
     ELSE <<[start |-> 0, node |-> DocFn(PList(Some("&self"), <<>>))],
            [start |-> 5, node |-> PlainFn(PList(Some("&self"), <<Some("x")>>))],
            [start |-> 9, node |-> DocFn(PList(Some("&self"), <<Some("x"), Some("y")>>))],
            [start |-> 14, node |-> PlainFn(PList(Some("&self"), <<None>>))]>>]

\* db.index_resolve(name_ref): the candidates of the index, or Canceled
index_resolve(idx, cancel) ==
  IF cancel THEN [tag |-> "Err", value |-> <<>>] ELSE [tag |-> "Ok", value |-> idx]

is_err_never(res) == FALSE

\* the ? operator: an Err returns from the function
is_err(res) == res.tag = "Err"

resolve_in_query_file(symbol, file_id) == Files[file_id][symbol.ptr.idx]

\* symbol.ptr.resolve(&db.source_file(symbol.file_id))
resolve(symbol, file_id) == Files[symbol.file_id][symbol.ptr.idx]

Pending ==
  [tag |-> "Pending", label |-> <<>>, doc |-> None, parameters |-> <<>>,
   active_parameter |-> None]

Outcome(tag) == [Pending EXCEPT !.tag = tag]

CallInfo(sig, active) ==
  [tag |-> "CallInfo", label |-> sig.label, doc |-> sig.doc,
   parameters |-> sig.params, active_parameter |-> active]

\* ------------------------------------------------- FnSignatureInfo::new
BodyStripped ==
  /\ sig_pc = "label"
  /\ label' = label_without_body(fn_def, fn_start)
  /\ sig_pc' = "docs"
  /\ UNCHANGED <<fn_def, fn_start, doc, processed_lines, params>>
  /\ UNCHANGED query_vars

DocsExtracted ==
  /\ sig_pc = "docs"
  /\ IsSome(extract_doc_comments(fn_def, fn_start))
  /\ LET found == Unwrap(extract_doc_comments(fn_def, fn_start))
         comment_range == comment_range_relative(found.range, fn_start)
         lines == massage_markdown(Lines(found.docs), FALSE)
     IN IF replace_range_fits(label, comment_range)
        THEN /\ label' = replace_range(label, comment_range)
             /\ processed_lines' = lines
             /\ doc' = doc_of_lines(lines)
             /\ sig_pc' = "params"
        ELSE /\ sig_pc' = "panic"
             /\ UNCHANGED <<label, processed_lines, doc>>
  /\ UNCHANGED <<fn_def, fn_start, params>>
  /\ UNCHANGED query_vars

NoDocs ==
  /\ sig_pc = "docs"
  /\ ~IsSome(extract_doc_comments(fn_def, fn_start))
  /\ sig_pc' = "params"
  /\ UNCHANGED <<fn_def, fn_start, label, doc, processed_lines, params>>
  /\ UNCHANGED query_vars

SignatureBuilt ==
  /\ sig_pc = "params"
  /\ params' = param_list(fn_def)
  /\ label' = Trim(label)
  /\ sig_pc' = "done"
  /\ UNCHANGED <<fn_def, fn_start, doc, processed_lines>>
  /\ UNCHANGED query_vars

NextSig ==
  \/ BodyStripped
  \/ DocsExtracted
  \/ NoDocs
  \/ SignatureBuilt

\* ------------------------------------------------------------- call_info
Returned(r) ==
  /\ result' = r
  /\ pc' = "done"

\* FnCallNode::with_node found no call around the offset
NotInCall ==
  /\ pc = "start"
  /\ ~IsSome(with_node(syntax, position.offset))
  /\ Returned(Outcome("NoResult"))
  /\ UNCHANGED <<db_vars, calling_node, file_symbols,
                 index_calls, inspected>>
  /\ UNCHANGED sig_vars

\* calling_node.name_ref() is None
NoCalleeName ==
  /\ pc = "start"
  /\ IsSome(with_node(syntax, position.offset))
  /\ ~IsSome(name_ref(syntax[Unwrap(with_node(syntax, position.offset))]))
  /\ calling_node' = with_node(syntax, position.offset)
  /\ Returned(Outcome("NoResult"))
  /\ UNCHANGED <<db_vars, file_symbols, index_calls,
                 inspected>>
  /\ UNCHANGED sig_vars

CallFound ==
  /\ pc = "start"
  /\ IsSome(with_node(syntax, position.offset))
  /\ IsSome(name_ref(syntax[Unwrap(with_node(syntax, position.offset))]))
  /\ calling_node' = with_node(syntax, position.offset)
  /\ pc' = "index_resolve"
  /\ UNCHANGED <<db_vars, file_symbols, result,
                 index_calls, inspected>>
  /\ UNCHANGED sig_vars

\* db.index_resolve(name_ref)? is Err(Canceled)
IndexResolveCanceled ==
  /\ pc = "index_resolve"
  /\ is_err(index_resolve(index, canceled))
  /\ index_calls' = index_calls + 1
  /\ Returned(Outcome("Canceled"))
  /\ UNCHANGED <<db_vars, calling_node, file_symbols,
                 inspected>>
  /\ UNCHANGED sig_vars

IndexResolved ==
  /\ pc = "index_resolve"
  /\ ~is_err(index_resolve(index, canceled))
  /\ index_calls' = index_calls + 1
  /\ file_symbols' = index_resolve(index, canceled).value
  /\ pc' = "symbols"
  /\ UNCHANGED <<db_vars, calling_node, result, inspected>>
  /\ UNCHANGED sig_vars

\* a symbol that is no FN_DEF
SymbolSkipped ==
  /\ pc = "symbols"
  /\ file_symbols # <<>>
  /\ Head(file_symbols).ptr.kind # "FN_DEF"
  /\ file_symbols' = Tail(file_symbols)
  /\ inspected' = inspected + 1
  /\ UNCHANGED <<db_vars, pc, calling_node, result,
                 index_calls>>
  /\ UNCHANGED sig_vars

\* the first FN_DEF symbol: its signature and the active parameter
FunctionResolved ==
  /\ pc = "symbols"
  /\ file_symbols # <<>>
  /\ Head(file_symbols).ptr.kind = "FN_DEF"
  /\ inspected' = inspected + 1
  /\ LET symbol == Head(file_symbols)
         found == resolve(symbol, position.file_id)
         descriptor == FnSignatureInfo_new(found.node, found.start)
         num_params == Len(descriptor.params)
         args == arg_list(syntax[Unwrap(calling_node)])
     IN IF \/ descriptor.tag = "Panic"
           \/ range_search_invalid(num_params, args, position.offset)
        THEN Returned(Outcome("Panic"))
        ELSE Returned(CallInfo(descriptor,
                 current_parameter(num_params, has_self(found.node), args,
                                   position.offset, text)))
  /\ UNCHANGED <<db_vars, calling_node, file_symbols,
                 index_calls>>
  /\ UNCHANGED sig_vars

NoFunction ==
  /\ pc = "symbols"
  /\ file_symbols = <<>>
  /\ Returned(Outcome("NoResult"))
  /\ UNCHANGED <<db_vars, calling_node, file_symbols,
                 index_calls, inspected>>
  /\ UNCHANGED sig_vars

Next ==
  \/ NotInCall
  \/ NoCalleeName
  \/ CallFound
  \/ IndexResolveCanceled
  \/ IndexResolved
  \/ SymbolSkipped
  \/ FunctionResolved
  \/ NoFunction

\* ------------------------------------------------------------ initial states
KindChar(kind) ==
  CASE kind = "COMMENT" -> "/"
    [] kind = "WHITESPACE" -> " "
    [] kind = "TOKEN" -> "f"
    [] OTHER -> "{"

\* comments and tokens of every length, and a single whitespace
Children ==
  {Tok(k, KindChar(k), n) : k \in {"COMMENT", "TOKEN"}, n \in 1..MaxChildLen}
  \cup {Tok("WHITESPACE", KindChar("WHITESPACE"), 1)}

\* the body is the last child of a definition that has one
ChildLists ==
  LET heads == SeqsUpTo(Children, MaxChildren)
  IN heads \cup {Append(h, Tok("BLOCK", "{", MaxChildLen)) : h \in heads}

DocUnits == {Fence, Rust, "x", " ", "\n"}

Pats == {None, Some("x"), Some("y")}

ParamLists ==
  {None} \cup {PList(self, pats) : self \in {None, Some("&self")},
                                   pats \in SeqsUpTo(Pats, MaxParams)}

QueryIdle ==
  /\ syntax = <<>>
  /\ text = <<>>
  /\ position = [file_id |-> 1, offset |-> 0]
  /\ index = <<>>
  /\ canceled = FALSE
  /\ pc = "idle"
  /\ calling_node = None
  /\ file_symbols = <<>>
  /\ result = Pending
  /\ index_calls = 0
  /\ inspected = 0

SigStart ==
  /\ sig_pc = "label"
  /\ label = <<>>
  /\ doc = None
  /\ processed_lines = <<>>
  /\ params = <<>>

\* definitions of every shape, with one documentation text
InitLabel ==
  /\ fn_def \in {MkDef(c, <<"x">>, None) : c \in ChildLists}
  /\ fn_start \in 0..MaxStart

\* every documentation text
InitDoc ==
  /\ fn_def \in {MkDef(<<Tok("COMMENT", "/", 1), Tok("TOKEN", "f", 1)>>, d, None) :
                   d \in SeqsUpTo(DocUnits, MaxDocLen)}
  /\ fn_start = 0

\* every parameter list
InitParams ==
  /\ fn_def \in {MkDef(<<Tok("TOKEN", "f", 1)>>, <<>>, pl) : pl \in ParamLists}
  /\ fn_start = 0

InitSig ==
  /\ InitLabel \/ InitDoc \/ InitParams
  /\ SigStart
  /\ QueryIdle

SpecSig == InitSig /\ [][NextSig]_vars

SigIdle ==
  /\ fn_def = MkDef(<<>>, <<>>, None)
  /\ fn_start = 0
  /\ sig_pc = "idle"
  /\ label = <<>>
  /\ doc = None
  /\ processed_lines = <<>>
  /\ params = <<>>

\* the callee of a call is a path with a name, a path without one or
\* another expression; a method call has a name among its children or not
Callees(kind) ==
  IF kind = "CALL_EXPR" THEN {"PathExpr", "PathExprNoName", "OtherExpr"}
  ELSE {"NameRef", "NoNameRef"}

CallNodes ==
  {[kind |-> k, range |-> <<s, e>>, callee |-> c, arg_start |-> a] :
     k \in {"CALL_EXPR", "METHOD_CALL_EXPR"},
     s \in 0..MaxOffset, e \in 0..MaxOffset,
     c \in {"PathExpr", "PathExprNoName", "OtherExpr", "NameRef", "NoNameRef"},
     a \in {None} \cup {Some(i) : i \in 0..MaxOffset}}

WellFormedNode(n) ==
  /\ n.range[1] < n.range[2]
  /\ n.callee \in Callees(n.kind)
  /\ IsSome(n.arg_start) =>
       n.range[1] < Unwrap(n.arg_start) /\ Unwrap(n.arg_start) < n.range[2]

StrictlyInside(inner, outer) ==
  /\ IsSubrange(inner.range, outer.range)
  /\ inner.range # outer.range

WellFormedNodes == {c \in CallNodes : WellFormedNode(c)}

\* chains of at most n of the nodes, each strictly inside the one before
RECURSIVE Chains(_, _)
Chains(nodes, n) ==
  IF n = 0 THEN {<<>>}
  ELSE LET shorter == Chains(nodes, n - 1)
       IN shorter \cup
          UNION {{Append(ch, c) :
                    c \in {d \in nodes :
                             Len(ch) > 0 => StrictlyInside(d, ch[Len(ch)])}} :
                 ch \in {x \in shorter : Len(x) = n - 1}}

\* a comma stands inside an argument list, after its opening parenthesis
TextOf(ch) ==
  {t \in [1..MaxOffset -> {",", "x"}] :
     \A p \in 1..MaxOffset :
       t[p] = "," =>
         \E i \in 1..Len(ch) :
           /\ IsSome(ch[i].arg_start)
           /\ Unwrap(ch[i].arg_start) + 1 < p
           /\ p <= ch[i].range[2]}

Symbols ==
  UNION {{[file_id |-> f, ptr |-> [kind |-> "FN_DEF", idx |-> i]] :
            i \in 1..Len(Files[f])} : f \in FileIds}
  \cup {[file_id |-> f, ptr |-> [kind |-> "STRUCT_DEF", idx |-> 1]] : f \in FileIds}

FnSymbols == {sym \in Symbols : sym.ptr.kind = "FN_DEF"}

FnSymbol(f, i) == [file_id |-> f, ptr |-> [kind |-> "FN_DEF", idx |-> i]]

\* every nest of call sites around every offset, the callee a name or another
\* expression, resolved to a function of two parameters or to a method of one
InitCallSites ==
  /\ syntax \in Chains({c \in WellFormedNodes : c.callee # "PathExprNoName"},
                        MaxDepth)
  /\ text \in TextOf(syntax)
  /\ position \in [file_id : {1}, offset : 0..MaxOffset]
  /\ index \in {<<FnSymbol(1, 3)>>, <<FnSymbol(2, 2)>>}
  /\ canceled = FALSE

\* one call site with every text, resolved to every function or to nothing
InitFunctions ==
  /\ syntax \in Chains(WellFormedNodes, 1)
  /\ text \in TextOf(syntax)
  /\ position \in [file_id : {1}, offset : 0..MaxOffset]
  /\ index \in {<<>>} \cup {<<sym>> : sym \in FnSymbols}
  /\ canceled = FALSE

\* every answer of the index over the first two definitions of each file,
\* canceled or not, for one direct call with the cursor before it, on its
\* callee and at its end
InitIndex ==
  /\ syntax \in {<<[kind |-> "CALL_EXPR", range |-> <<1, MaxOffset>>, callee |-> c,
                     arg_start |-> Some(2)]>> : c \in Callees("CALL_EXPR")}
  /\ text = [p \in 1..MaxOffset |-> "x"]
  /\ position \in [file_id : FileIds, offset : {0, 1, MaxOffset}]
  /\ index \in SeqsUpTo({sym \in Symbols : sym.ptr.idx <= 2}, MaxCands)
  /\ canceled \in BOOLEAN

Init ==
  /\ InitCallSites \/ InitFunctions \/ InitIndex
  /\ pc = "start"
  /\ calling_node = None
  /\ file_symbols = <<>>
  /\ result = Pending
  /\ index_calls = 0
  /\ inspected = 0
  /\ SigIdle

Spec == Init /\ [][Next]_vars

\* ------------------------------------------------------------------ claims
\* the call site the query classified
Site == syntax[Unwrap(calling_node)]

\* a function definition was resolved and the query returned
ResolvedState == pc = "done" /\ file_symbols # <<>>

\* the definition of the symbol the query stopped at
TheFn == Files[Head(file_symbols).file_id][Head(file_symbols).ptr.idx].node

HasReceiver(node) ==
  node.param_list # None /\ node.param_list[1].self_param # None

\* the number of rendered parameters
Rendered(node) ==
  IF node.param_list = None THEN 0
  ELSE (IF HasReceiver(node) THEN 1 ELSE 0)
       + Cardinality({i \in 1..Len(node.param_list[1].params) :
                        node.param_list[1].params[i] # None})

\* the commas of the text between two offsets
CommasBetween(from, to) ==
  Cardinality({p \in (from + 1)..to : text[p] = ","})

\* C1: for a function of more than one rendered parameter, the active
\* parameter of a result is the number of commas between the start of the
\* argument list and the offset, plus one for a receiver; it is none without
\* an argument list; with a receiver it is never 0.
C1_ActiveParameterCountsCommas ==
  (pc = "done" /\ result.tag = "CallInfo" /\ Len(result.parameters) > 1) =>
    /\ Site.arg_start # None =>
         result.active_parameter =
           Some(CommasBetween(Site.arg_start[1], position.offset)
                + (IF HasReceiver(TheFn) THEN 1 ELSE 0))
    /\ Site.arg_start = None => result.active_parameter = None
    /\ HasReceiver(TheFn) => result.active_parameter # Some(0)

C1_Witness ==
  /\ pc = "done"
  /\ result.tag = "CallInfo"
  /\ Len(result.parameters) > 1
  /\ HasReceiver(TheFn)
  /\ Site.arg_start # None
  /\ CommasBetween(Site.arg_start[1], position.offset) = 1
  /\ result.active_parameter = Some(2)

\* C2: for a function of exactly one rendered parameter the query returns a
\* result whose active parameter is 0 when the parameter is no receiver, for
\* every offset and argument list, and none when it is the receiver.
C2_SingleParameter ==
  (ResolvedState /\ Rendered(TheFn) = 1) =>
    /\ result.tag = "CallInfo"
    /\ result.active_parameter = IF HasReceiver(TheFn) THEN None ELSE Some(0)

C2_Witness ==
  /\ ResolvedState
  /\ Rendered(TheFn) = 1
  /\ ~HasReceiver(TheFn)
  /\ Site.arg_start # None
  /\ CommasBetween(Site.arg_start[1], position.offset) >= 1
  /\ result.active_parameter = Some(0)

\* C3: the active parameter of every result is an index into its rendered
\* parameter list.
C3_ActiveParameterInRange ==
  (result.tag = "CallInfo" /\ result.active_parameter # None) =>
    result.active_parameter[1] < Len(result.parameters)

\* C4: a query whose offset lies in a call or method call never ends in a
\* failure: the range searched for commas always has start <= end.
C4_NeverFails == result.tag # "Panic"

\* C5: when the index signals cancellation the query returns Canceled, with
\* no candidate inspected and nothing else in the result; when classification
\* or the callee name already fails, the index is not consulted and the query
\* returns NoResult.
C5_CancellationPropagates ==
  /\ index_calls <= 1
  /\ (index_calls = 1 /\ canceled) =>
       /\ pc = "done"
       /\ result = Outcome("Canceled")
       /\ inspected = 0
       /\ file_symbols = <<>>
  /\ result.tag = "Canceled" => (canceled /\ index_calls = 1)
  /\ (pc = "done" /\ (calling_node = None \/ name_ref(Site) = None)) =>
       /\ index_calls = 0
       /\ result = Outcome("NoResult")

C5_Witness ==
  /\ result.tag = "Canceled"
  /\ index # <<>>
  /\ index[1].ptr.kind = "FN_DEF"

FnCandidates == {i \in 1..Len(index) : index[i].ptr.kind = "FN_DEF"}

FirstFn == CHOOSE i \in FnCandidates : \A j \in FnCandidates : i <= j

\* C6: the signature of a result is that of the first FN_DEF candidate, read
\* from the file that candidate names; candidates before it are skipped and
\* none after it is inspected; with no FN_DEF candidate the query returns
\* NoResult.
C6_FirstFunctionCandidate ==
  (pc = "done" /\ index_calls = 1 /\ ~canceled) =>
    IF FnCandidates = {}
    THEN result = Outcome("NoResult") /\ inspected = Len(index)
    ELSE LET own == Files[index[FirstFn].file_id][index[FirstFn].ptr.idx]
             sig == FnSignatureInfo_new(own.node, own.start)
         IN /\ inspected = FirstFn
            /\ result.tag \in {"CallInfo", "Panic"}
            /\ result.tag = "CallInfo" =>
                 /\ result.label = sig.label
                 /\ result.doc = sig.doc
                 /\ result.parameters = sig.params

C6_Witness ==
  /\ pc = "done"
  /\ result.tag = "CallInfo"
  /\ Len(index) = 3
  /\ FirstFn = 2
  /\ index[2].file_id # position.file_id
  /\ index[3].ptr.kind = "FN_DEF"
  /\ index[3] # index[2]

\* C7: doc is none when the definition has no doc comments or the normalized
\* text is empty after trimming; a doc that is present is not empty after
\* trimming.
C7_DocNoneWhenEmpty ==
  sig_pc = "done" =>
    /\ doc_comments(fn_def) = {} => doc = None
    /\ doc # None => Trim(doc[1]) # <<>>

CommentChildren == {i \in 1..Len(fn_def.children) : fn_def.children[i].kind = "COMMENT"}

InDocSpan(i) ==
  /\ \E c \in CommentChildren : c <= i
  /\ \E c \in CommentChildren : i <= c

\* the text of the definition without its body and without the span from
\* its first comment to its last
SignatureText ==
  Concat([i \in 1..Len(fn_def.children) |->
            IF fn_def.children[i].kind = "BLOCK" \/ InDocSpan(i)
            THEN <<>>
            ELSE fn_def.children[i].text])

C9_NormalizationIdempotent ==
  (sig_pc = "done" /\ doc # None /\ Trim(doc[1]) # <<>>) =>
    normalize_docs(doc[1]) = doc

\* a fence line opens a block when the fence lines up to it are odd in number
OpensFence(lines, i) ==
  /\ StartsWithFence(lines[i])
  /\ Cardinality({j \in 1..i : StartsWithFence(lines[j])}) % 2 = 1

\* C9 as amended: a line that opens a fence and does not contain rust becomes
\* the tagged fence, every other line is emitted unchanged and in order; the
\* pass applied to its own output lines returns them unchanged; and the
\* joined output, split into lines again, is that output or that output
\* without one final empty line.
C9_LinewiseIdempotent ==
  (sig_pc \in {"params", "done"} /\ doc_comments(fn_def) # {}) =>
    LET lines == Lines(fn_def.docs)
    IN /\ Len(processed_lines) = Len(lines)
       /\ \A i \in 1..Len(lines) :
            processed_lines[i] =
              IF OpensFence(lines, i) /\ ~ContainsRust(lines[i])
              THEN <<Fence, Rust>>
              ELSE lines[i]
       /\ massage_markdown(processed_lines, FALSE) = processed_lines
       /\ doc # None =>
            LET again == Lines(doc[1])
            IN /\ massage_markdown(again, FALSE) = again
               /\ \/ again = processed_lines
                  \/ processed_lines = Append(again, <<>>)

C9_Witness ==
  /\ sig_pc = "done"
  /\ Len(processed_lines) = 2
  /\ Lines(fn_def.docs)[1] = <<Fence>>
  /\ processed_lines[1] = <<Fence, Rust>>
  /\ processed_lines[2] = <<Fence>>

CallsAround(kind) ==
  {i \in 1..Len(syntax) :
     /\ syntax[i].kind = kind
     /\ syntax[i].range[1] <= position.offset
     /\ position.offset <= syntax[i].range[2]}

Innermost(S) == CHOOSE i \in S : \A j \in S : IsSubrange(syntax[i].range, syntax[j].range)

\* C10: the classifier returns the innermost call expression around the
\* offset when there is one, also when a method call inside it is around the
\* offset too; else the innermost method call around it; else nothing.
C10_DirectCallPreferred ==
  pc # "start" =>
    /\ CallsAround("CALL_EXPR") # {} =>
         calling_node = Some(Innermost(CallsAround("CALL_EXPR")))
    /\ (CallsAround("CALL_EXPR") = {} /\ CallsAround("METHOD_CALL_EXPR") # {}) =>
         calling_node = Some(Innermost(CallsAround("METHOD_CALL_EXPR")))
    /\ (CallsAround("CALL_EXPR") = {} /\ CallsAround("METHOD_CALL_EXPR") = {}) =>
         calling_node = None /\ result = Outcome("NoResult")

C10_Witness ==
  /\ pc # "start"
  /\ calling_node # None
  /\ Site.kind = "CALL_EXPR"
  /\ \E j \in CallsAround("METHOD_CALL_EXPR") : j > calling_node[1]

====
